---- MODULE Spec2Model ----
(***************************************************************************)
(* Attachment transport of jira-cli: the client operations of pkg/jira     *)
(* (applyAuth, DownloadAttachment, uploadAttachment, postWithHeaders,      *)
(* deleteAttachment) and the commands `issue attachment add` and           *)
(* `issue attachment download` that drive them.                            *)
(*                                                                         *)
(* Strings that the code takes apart are sequences here: a local path is   *)
(* the sequence of its components, a URL the sequence of its segments, a   *)
(* file or body the sequence of its bytes, a header value the sequence of  *)
(* its words.                                                              *)
(***************************************************************************)
EXTENDS Integers, Sequences, FiniteSets, TLC

VARIABLES
    client,        \* the jira.Client: server, login, token, authType
    config,        \* the client as NewClient returned it
    installation,  \* viper's "installation" setting
    fs,            \* the local file system: path -> file
    wire,          \* the requests that reached the transport, in order
    handles,       \* the files and response bodies opened so far, and those still open
    call,          \* the last direct call of a client operation, with its result
    cmd,           \* the running command: its arguments and position
    view           \* the last call of a rendering function, with its output

vars == <<client, config, installation, fs, wire, handles, call, cmd, view>>

\* What no operation and no command writes.
settings == <<installation, config, view>>

-----------------------------------------------------------------------------
(* Bounds of the model *)

MaxContent == 2      \* longest file content / download body, in bytes
MaxRecords == 2      \* longest JSON array in an upload response
MaxFiles == 2        \* most FILE arguments of `add`
MaxAttachments == 2  \* most attachments on the fetched issue
MaxField == 3        \* longest file name or author name given to escapeCSV, in bytes
MaxDateChars == 11   \* longest generated date given to formatDate, in characters
MaxGiB == 2          \* largest byte count given to formatSize, in units of 1024^3

(* Program constants *)

StatusOK == 200
StatusNoContent == 204
DateWidth == 10
KB == 1024
MinWidth == 0
TabWidth == 8
Padding == 1

apiVersion2 == "v2"
apiVersion3 == "v3"
baseURLv2 == <<"rest", "api", "2">>
baseURLv3 == <<"rest", "api", "3">>

InstallationTypeCloud == "Cloud"
InstallationTypeLocal == "Local"

AuthTypeBasic == "basic"
AuthTypeBearer == "bearer"
AuthTypeMTLS == "mtls"
AuthUnset == "nil"

ActionSubmit == "Submit"
ActionCancel == "Cancel"

-----------------------------------------------------------------------------
(* Input domains *)

Keys == {"TEST-1"}
AttachmentIDs == {"10001", "10002"}
Filenames == {"a.txt", "b.txt"}
Dirs == {"d"}
Boundaries == {"b1", "b2"}
Statuses == {200, 201, 204, 404}

SeqsUpTo(S, n) == UNION {[1..k -> S] : k \in 0..n}

Contents == SeqsUpTo({1, 2}, MaxContent)

Paths == {<<d, f>> : d \in Dirs, f \in Filenames}

NoFile == [kind |-> "none", data |-> <<>>]
File(data) == [kind |-> "file", data |-> data]

-----------------------------------------------------------------------------
(* Errors.  One record shape for all of them; kind "nil" is no error. *)

Err(kind, status, messages) == [kind |-> kind, status |-> status, messages |-> messages]
NoErr == Err("nil", 0, <<>>)
ErrEmptyResponse == Err("EmptyResponse", 0, <<>>)
ErrNotExist == Err("NotExist", 0, <<>>)
ErrRead == Err("ReadError", 0, <<>>)
ErrCreate == Err("CreateError", 0, <<>>)
ErrCopy == Err("CopyError", 0, <<>>)
ErrTransport(cause) == Err("TransportError", 0, <<cause>>)
ErrDecode == Err("DecodeError", 0, <<>>)
ErrDownloadFailed(status) == Err("DownloadFailed", status, <<>>)

-----------------------------------------------------------------------------
(* HTTP messages *)

HeaderNames == {"Authorization", "Content-Type", "X-Atlassian-Token"}
NoHeader == [h \in HeaderNames |-> <<>>]

\* http.Header.Set replaces the values of a key, http.Header.Add appends one.
HeaderSet(header, k, v) == [header EXCEPT ![k] = <<v>>]
HeaderAdd(header, k, v) == [header EXCEPT ![k] = Append(@, v)]

NewRequest(method, url, body) ==
    [method |-> method, url |-> url, header |-> NoHeader, body |-> body]

\* The path of a URL: what follows the server.
URLPath(url) == SubSeq(url, 2, Len(url))

(* Response bodies.  A body is raw bytes, or JSON text given by the value it
   parses to: null, an object (an error object carries errorMessages), or an
   array of elements, each an object with the fields it has or a number. *)

Body(kind, raw, items, messages) ==
    [kind |-> kind, raw |-> raw, items |-> items, messages |-> messages]
RawBody(bytes) == Body("raw", bytes, <<>>, <<>>)
JsonNull == Body("null", <<>>, <<>>, <<>>)
JsonErrors(messages) == Body("object", <<>>, <<>>, messages)
JsonArray(items) == Body("array", <<>>, items, <<>>)

JsonObject(id, filename, content) ==
    [kind |-> "object", id |-> id, filename |-> filename, content |-> content]
JsonNumber == [kind |-> "number", id |-> "", filename |-> "", content |-> <<>>]

ContentURL(id) == <<"srv", "secure", "attachment", id>>

RawBodies == {RawBody(b) : b \in Contents}
JsonBodies ==
    {JsonNull, JsonErrors(<<"Attachment not found">>), JsonErrors(<<>>)}
        \cup {JsonArray(s) :
                s \in SeqsUpTo({JsonObject("10001", "a.txt", ContentURL("10001")),
                                JsonObject("10002", "b.txt", ContentURL("10002")),
                                \* an object with none of the fields of an attachment
                                JsonObject("", "", <<>>), JsonNumber}, MaxRecords)}

(* What the transport gives back: an error, a response, or neither. *)
Outcome(kind, status, body, cause) ==
    [kind |-> kind, status |-> status, body |-> body, cause |-> cause]
NoOutcome == Outcome("none", 0, RawBody(<<>>), "")
NilResponse == Outcome("nil", 0, RawBody(<<>>), "")
Response(status, body) == Outcome("resp", status, body, "")

TransportFailures ==
    {Outcome("err", 0, RawBody(<<>>), e) : e \in {"timeout", "connection refused"}}

ApiOutcomes ==
    TransportFailures \cup {NilResponse}
        \cup {Response(StatusOK, b) : b \in JsonBodies \cup {RawBody(<<>>), RawBody(<<1>>)}}
        \cup {Response(s, b) :
                s \in Statuses \ {StatusOK},
                b \in {JsonErrors(<<"Attachment not found">>), RawBody(<<>>),
                       JsonArray(<<JsonObject("10001", "a.txt", ContentURL("10001"))>>)}}

-----------------------------------------------------------------------------
(* applyAuth: sets the default auth type on the client when it has none, then
   adds the credential of the auth type to the request. *)

\* http.Request.SetBasicAuth: Authorization: Basic base64(login ":" token).
SetBasicAuth(req, login, token) ==
    [req EXCEPT !.header = HeaderSet(@, "Authorization", <<"Basic", login, ":", token>>)]

\* A variant that sends the bearer token under mutual TLS even when it is empty.
applyAuth_MTLSAlways(c, req) ==
    LET c1 == IF c.authType = AuthUnset
                THEN [c EXCEPT !.authType = AuthTypeBasic]
                ELSE c
        bearer == [req EXCEPT
                     !.header = HeaderAdd(@, "Authorization", <<"Bearer", c1.token>>)]
        req1 == CASE c1.authType \in {AuthTypeMTLS, AuthTypeBearer} -> bearer
                  [] c1.authType = AuthTypeBasic ->
                       SetBasicAuth(req, c1.login, c1.token)
                  [] OTHER -> req
    IN  [client |-> c1, req |-> req1]

applyAuth(c, req) ==
    LET c1 == IF c.authType = AuthUnset
                THEN [c EXCEPT !.authType = AuthTypeBasic]
                ELSE c
        bearer == [req EXCEPT
                     !.header = HeaderAdd(@, "Authorization", <<"Bearer", c1.token>>)]
        req1 == CASE c1.authType = AuthTypeMTLS ->
                       IF c1.token # "" THEN bearer ELSE req
                  [] c1.authType = AuthTypeBearer -> bearer
                  [] c1.authType = AuthTypeBasic ->
                       SetBasicAuth(req, c1.login, c1.token)
                  [] OTHER -> req
    IN  [client |-> c1, req |-> req1]

-----------------------------------------------------------------------------
(* mime/multipart.  A payload is a sequence of lines: the delimiter line of a
   boundary, a part's header line, one line per content byte, and the closing
   delimiter. *)

Line(t, b, name, filename, byte) ==
    [t |-> t, b |-> b, name |-> name, filename |-> filename, byte |-> byte]
DelimLine(b) == Line("delim", b, "", "", 0)
HeaderLine(name, filename) == Line("header", "", name, filename, 0)
DataLine(byte) == Line("data", "", "", "", byte)
CloseLine(b) == Line("close", b, "", "", 0)

\* multipart.Writer.CreateFormFile: the delimiter and the part's header.
CreateFormFile(b, fieldname, filename) ==
    <<DelimLine(b), HeaderLine(fieldname, filename)>>

\* A variant that stops one byte short.
CopyToPart_DropLast(data) == [i \in 1..(Len(data) - 1) |-> DataLine(data[i])]

\* io.Copy of the file into the part.
CopyToPart(data) == [i \in 1..Len(data) |-> DataLine(data[i])]

\* multipart.Writer.Close: the closing delimiter.
WriterClose(b) == <<CloseLine(b)>>

\* multipart.Writer.FormDataContentType.
FormDataContentType(b) == <<"multipart/form-data", b>>

\* filepath.Base: the last component of a path.
FilepathBase(p) == IF Len(p) = 0 THEN "." ELSE p[Len(p)]

\* filepath.Join of a directory and a name.
FilepathJoin(dir, name) == dir \o <<name>>

(* Reading a payload back, as http.Request.ParseMultipartForm does with the
   boundary of the Content-Type header: the parts, each with its field name,
   file name and content. *)
IsBoundaryLine(l, b) == l.t \in {"delim", "close"} /\ l.b = b

RECURSIVE PartContent(_, _)
PartContent(lines, b) ==
    IF lines = <<>> \/ IsBoundaryLine(Head(lines), b)
      THEN <<>>
      ELSE <<Head(lines).byte>> \o PartContent(Tail(lines), b)

RECURSIVE ParseParts(_, _)
ParseParts(lines, b) ==
    IF lines = <<>> THEN [ok |-> FALSE, parts |-> <<>>]
    ELSE IF Head(lines) = CloseLine(b) THEN [ok |-> TRUE, parts |-> <<>>]
    ELSE IF Head(lines) = DelimLine(b) /\ Len(lines) >= 2 /\ lines[2].t = "header"
      THEN LET content == PartContent(SubSeq(lines, 3, Len(lines)), b)
               rest == ParseParts(SubSeq(lines, 3 + Len(content), Len(lines)), b)
           IN  [ok |-> rest.ok,
                parts |-> <<[name |-> lines[2].name,
                             filename |-> lines[2].filename,
                             content |-> content]>> \o rest.parts]
    ELSE [ok |-> FALSE, parts |-> <<>>]

-----------------------------------------------------------------------------
(* encoding/json: decoding a response body into []Attachment. *)

Attachment(id, filename, content) ==
    [ID |-> id, Filename |-> filename, Content |-> content]

\* An object decodes field by field; a field it lacks keeps its zero value.
DecodeAttachment(e) == Attachment(e.id, e.filename, e.content)

DecodeAttachments(body) ==
    CASE body.kind = "null" -> [ok |-> TRUE, attachments |-> <<>>]
      [] body.kind = "array" /\ \A i \in 1..Len(body.items) : body.items[i].kind = "object" ->
           [ok |-> TRUE,
            attachments |-> [i \in 1..Len(body.items) |-> DecodeAttachment(body.items[i])]]
      [] OTHER -> [ok |-> FALSE, attachments |-> <<>>]

\* ErrUnexpectedResponse: the status and the error messages of the body.
formatUnexpectedResponse(res) ==
    Err("UnexpectedResponse", res.status,
        IF res.body.kind = "object" THEN res.body.messages ELSE <<>>)

-----------------------------------------------------------------------------
(* The client operations.  Each is given the client, the file system and what
   the environment does (the boundary the multipart writer draws, a read or
   write fault, what the transport gives back) and yields its return values
   with the client, the file system and the requests it handed to the
   transport. *)

Result(attachments, err, c, sent, fsys) ==
    [attachments |-> attachments, err |-> err, client |-> c, sent |-> sent, fs |-> fsys]

\* Client.request: a request with the given headers and the client's
\* authentication, handed to the transport.
request(c, method, endpoint, body, headers, out) ==
    LET req0 == NewRequest(method, endpoint, body)
        req1 == [req0 EXCEPT !.header =
                    [h \in HeaderNames |->
                        IF h \in DOMAIN headers THEN <<headers[h]>> ELSE @[h]]]
        a == applyAuth(c, req1)
    IN  [client |-> a.client, sent |-> <<a.req>>, res |-> out]

\* A variant that does not copy the headers it is given to the request.
postWithHeaders_NoHeaders(c, endpoint, body, headers, out) ==
    LET a == applyAuth(c, NewRequest("POST", endpoint, body))
    IN  [client |-> a.client, sent |-> <<a.req>>, res |-> out]

postWithHeaders(c, endpoint, body, headers, out) ==
    LET req0 == NewRequest("POST", endpoint, body)
        req1 == [req0 EXCEPT !.header =
                    [h \in HeaderNames |->
                        IF h \in DOMAIN headers THEN <<headers[h]>> ELSE @[h]]]
        a == applyAuth(c, req1)
    IN  [client |-> a.client, sent |-> <<a.req>>, res |-> out]

UploadPath(key) == <<"issue", key, "attachments">>

\* A variant without the version switch.
UploadEndpoint_AlwaysV3(c, key, ver) == c.server \o baseURLv3 \o UploadPath(key)

UploadEndpoint(c, key, ver) ==
    IF ver = apiVersion2
      THEN c.server \o baseURLv2 \o UploadPath(key)
      ELSE c.server \o baseURLv3 \o UploadPath(key)

\* The multipart payload built from the opened file.
MultipartBody(filePath, data, b) ==
    CreateFormFile(b, "file", FilepathBase(filePath)) \o CopyToPart(data) \o WriterClose(b)

UploadHeaders(b) ==
    [h \in {"Content-Type", "X-Atlassian-Token"} |->
        IF h = "Content-Type" THEN FormDataContentType(b) ELSE <<"no-check">>]

\* A variant that reports a decode failure as an unexpected response.
UploadAnswer_DecodeAsUnexpected(res) ==
    IF res.kind = "err" THEN [attachments |-> <<>>, err |-> ErrTransport(res.cause)]
    ELSE IF res.kind = "nil" THEN [attachments |-> <<>>, err |-> ErrEmptyResponse]
    ELSE IF res.status # StatusOK \/ ~DecodeAttachments(res.body).ok
      THEN [attachments |-> <<>>, err |-> formatUnexpectedResponse(res)]
    ELSE [attachments |-> DecodeAttachments(res.body).attachments, err |-> NoErr]

\* A variant that takes every 2xx status for success.
UploadAnswer_Any2xx(res) ==
    IF res.kind = "err" THEN [attachments |-> <<>>, err |-> ErrTransport(res.cause)]
    ELSE IF res.kind = "nil" THEN [attachments |-> <<>>, err |-> ErrEmptyResponse]
    ELSE IF res.status < 200 \/ res.status >= 300
      THEN [attachments |-> <<>>, err |-> formatUnexpectedResponse(res)]
    ELSE IF ~DecodeAttachments(res.body).ok
      THEN [attachments |-> <<>>, err |-> ErrDecode]
    ELSE [attachments |-> DecodeAttachments(res.body).attachments, err |-> NoErr]

\* What uploadAttachment makes of the transport's answer.
UploadAnswer(res) ==
    IF res.kind = "err" THEN [attachments |-> <<>>, err |-> ErrTransport(res.cause)]
    ELSE IF res.kind = "nil" THEN [attachments |-> <<>>, err |-> ErrEmptyResponse]
    ELSE IF res.status # StatusOK
      THEN [attachments |-> <<>>, err |-> formatUnexpectedResponse(res)]
    ELSE IF ~DecodeAttachments(res.body).ok
      THEN [attachments |-> <<>>, err |-> ErrDecode]
    ELSE [attachments |-> DecodeAttachments(res.body).attachments, err |-> NoErr]

(* What the environment does during an upload: whether reading the opened file
   fails, the boundary the multipart writer draws and what the transport gives
   back.  The writer and the transport act only when the step before them
   succeeded. *)
UploadEnv(b, readFault, out) == [boundary |-> b, readFault |-> readFault, out |-> out]

UploadEnvs(fsys, filePath) ==
    IF fsys[filePath].kind = "none" THEN {UploadEnv("", FALSE, NoOutcome)}
    ELSE {UploadEnv("", TRUE, NoOutcome)}
            \cup {UploadEnv(b, FALSE, out) : b \in Boundaries, out \in ApiOutcomes}

uploadAttachment(c, fsys, key, filePath, ver, env) ==
    LET file == fsys[filePath]
        body == MultipartBody(filePath, file.data, env.boundary)
        p == postWithHeaders(c, UploadEndpoint(c, key, ver), body,
                             UploadHeaders(env.boundary), env.out)
        answer == UploadAnswer(p.res)
    IN  IF file.kind = "none" THEN Result(<<>>, ErrNotExist, c, <<>>, fsys)
        ELSE IF env.readFault THEN Result(<<>>, ErrRead, c, <<>>, fsys)
        ELSE Result(answer.attachments, answer.err, p.client, p.sent, fsys)

UploadAttachment(c, fsys, key, filePath, env) ==
    uploadAttachment(c, fsys, key, filePath, apiVersion3, env)

UploadAttachmentV2(c, fsys, key, filePath, env) ==
    uploadAttachment(c, fsys, key, filePath, apiVersion2, env)

DeletePath(attachmentID) == <<"attachment", attachmentID>>

\* Client.DeleteV2: DELETE of a path under the v2 base.
DeleteV2(c, path, out) ==
    request(c, "DELETE", c.server \o baseURLv2 \o path, <<>>, <<>>, out)

delete(c, endpoint, headers, out) ==
    request(c, "DELETE", endpoint, <<>>, headers, out)

\* A variant that looks for a missing response before it looks at the error.
DeleteAnswer_NilFirst(res) ==
    IF res.kind \in {"nil", "err"} THEN ErrEmptyResponse
    ELSE IF res.status # StatusNoContent /\ res.status # StatusOK
      THEN formatUnexpectedResponse(res)
    ELSE NoErr

\* A variant that takes 204 alone for success.
DeleteAnswer_Only204(res) ==
    IF res.kind = "err" THEN ErrTransport(res.cause)
    ELSE IF res.kind = "nil" THEN ErrEmptyResponse
    ELSE IF res.status # StatusNoContent THEN formatUnexpectedResponse(res)
    ELSE NoErr

\* What deleteAttachment makes of the transport's answer.
DeleteAnswer(res) ==
    IF res.kind = "err" THEN ErrTransport(res.cause)
    ELSE IF res.kind = "nil" THEN ErrEmptyResponse
    ELSE IF res.status # StatusNoContent /\ res.status # StatusOK
      THEN formatUnexpectedResponse(res)
    ELSE NoErr

deleteAttachment(c, fsys, attachmentID, ver, out) ==
    LET path == DeletePath(attachmentID)
        p == IF ver = apiVersion2
               THEN DeleteV2(c, path, out)
               ELSE delete(c, c.server \o baseURLv3 \o path, <<>>, out)
    IN  Result(<<>>, DeleteAnswer(p.res), p.client, p.sent, fsys)

DeleteAttachment(c, fsys, attachmentID, out) ==
    deleteAttachment(c, fsys, attachmentID, apiVersion3, out)

DeleteAttachmentV2(c, fsys, attachmentID, out) ==
    deleteAttachment(c, fsys, attachmentID, apiVersion2, out)

\* os.Create: the file exists and is empty.
OsCreate(fsys, path) == [fsys EXCEPT ![path] = File(<<>>)]

\* io.Copy into the created file: the bytes written before it returned.
IoCopy(fsys, path, body, written) ==
    [fsys EXCEPT ![path] = File(SubSeq(body, 1, written))]

(* What the environment does during a download: what the transport gives
   back and, after a 200, whether os.Create fails (createFails) and how many
   bytes io.Copy wrote before a read or write failed (copyFault, -1 when it
   reached the end of the body). *)
DownloadEnv(out, createFails, copyFault) ==
    [out |-> out, createFails |-> createFails, copyFault |-> copyFault]

\* http.Client.Do returns a response or an error, never neither.
DownloadEnvs ==
    {DownloadEnv(out, FALSE, -1) :
        out \in TransportFailures
                 \cup {Response(StatusOK, b) : b \in RawBodies}
                 \cup {Response(s, RawBody(b)) :
                         s \in Statuses \ {StatusOK}, b \in {<<>>, <<1, 2>>}}}
        \cup {DownloadEnv(Response(StatusOK, b), TRUE, -1) : b \in RawBodies}
        \cup UNION {{DownloadEnv(Response(StatusOK, b), FALSE, k) : k \in 0..Len(b.raw)} :
                        b \in RawBodies}

\* A variant that creates the destination before it looks at the status.
DownloadAttachment_CreateFirst(c, fsys, url, destPath, env) ==
    LET a == applyAuth(c, NewRequest("GET", url, <<>>))
        sent == <<a.req>>
        out == env.out
        body == out.body.raw
        created == OsCreate(fsys, destPath)
    IN  IF out.kind = "err" THEN Result(<<>>, ErrTransport(out.cause), a.client, sent, fsys)
        ELSE IF env.createFails THEN Result(<<>>, ErrCreate, a.client, sent, fsys)
        ELSE IF out.status # StatusOK
          THEN Result(<<>>, ErrDownloadFailed(out.status), a.client, sent, created)
        ELSE IF env.copyFault >= 0
          THEN Result(<<>>, ErrCopy, a.client, sent,
                      IoCopy(created, destPath, body, env.copyFault))
        ELSE Result(<<>>, NoErr, a.client, sent,
                    IoCopy(created, destPath, body, Len(body)))

\* A variant that takes an interrupted copy for a finished one.
DownloadAttachment_IgnoreCopyError(c, fsys, url, destPath, env) ==
    LET a == applyAuth(c, NewRequest("GET", url, <<>>))
        sent == <<a.req>>
        out == env.out
        body == out.body.raw
        written == IF env.copyFault >= 0 THEN env.copyFault ELSE Len(body)
    IN  IF out.kind = "err" THEN Result(<<>>, ErrTransport(out.cause), a.client, sent, fsys)
        ELSE IF out.status # StatusOK
          THEN Result(<<>>, ErrDownloadFailed(out.status), a.client, sent, fsys)
        ELSE IF env.createFails THEN Result(<<>>, ErrCreate, a.client, sent, fsys)
        ELSE Result(<<>>, NoErr, a.client, sent,
                    IoCopy(OsCreate(fsys, destPath), destPath, body, written))

DownloadAttachment(c, fsys, url, destPath, env) ==
    LET a == applyAuth(c, NewRequest("GET", url, <<>>))
        sent == <<a.req>>
        out == env.out
        body == out.body.raw
    IN  IF out.kind = "err" THEN Result(<<>>, ErrTransport(out.cause), a.client, sent, fsys)
        ELSE IF out.status # StatusOK
          THEN Result(<<>>, ErrDownloadFailed(out.status), a.client, sent, fsys)
        ELSE IF env.createFails THEN Result(<<>>, ErrCreate, a.client, sent, fsys)
        ELSE IF env.copyFault >= 0
          THEN Result(<<>>, ErrCopy, a.client, sent,
                      IoCopy(OsCreate(fsys, destPath), destPath, body, env.copyFault))
        ELSE Result(<<>>, NoErr, a.client, sent,
                    IoCopy(OsCreate(fsys, destPath), destPath, body, Len(body)))

(* The handles of an operation: what it acquired (the local file it opened,
   the body of the response it got) and what it registered a deferred Close
   for.  The deferred calls run when the operation returns. *)
Handles(acquired, deferred) == [acquired |-> acquired, deferred |-> deferred]

uploadAttachmentHandles(fsys, filePath, env) ==
    LET opened == fsys[filePath].kind # "none"
        answered == opened /\ ~env.readFault /\ env.out.kind = "resp"
    IN  Handles((IF opened THEN {"file"} ELSE {}) \cup (IF answered THEN {"res.Body"} ELSE {}),
                (IF opened THEN {"file"} ELSE {}) \cup (IF answered THEN {"res.Body"} ELSE {}))

deleteAttachmentHandles(out) ==
    Handles(IF out.kind = "resp" THEN {"res.Body"} ELSE {},
            IF out.kind = "resp" THEN {"res.Body"} ELSE {})

\* A variant that closes the destination after the copy instead of deferring
\* the Close.
DownloadAttachmentHandles_CloseAfterCopy(env) ==
    LET answered == env.out.kind = "resp"
        created == answered /\ env.out.status = StatusOK /\ ~env.createFails
    IN  Handles((IF answered THEN {"res.Body"} ELSE {}) \cup (IF created THEN {"out"} ELSE {}),
                (IF answered THEN {"res.Body"} ELSE {})
                    \cup (IF created /\ env.copyFault = -1 THEN {"out"} ELSE {}))

DownloadAttachmentHandles(env) ==
    LET answered == env.out.kind = "resp"
        created == answered /\ env.out.status = StatusOK /\ ~env.createFails
    IN  Handles((IF answered THEN {"res.Body"} ELSE {}) \cup (IF created THEN {"out"} ELSE {}),
                (IF answered THEN {"res.Body"} ELSE {}) \cup (IF created THEN {"out"} ELSE {}))

(* api.ProxyUploadAttachment and api.ProxyDeleteAttachment: the v2 operation
   for a local installation, the v3 operation otherwise. *)
ProxyUploadAttachment(c, inst, fsys, key, filePath, env) ==
    IF inst = InstallationTypeLocal
      THEN UploadAttachmentV2(c, fsys, key, filePath, env)
      ELSE UploadAttachment(c, fsys, key, filePath, env)

ProxyDeleteAttachment(c, inst, fsys, attachmentID, out) ==
    IF inst = InstallationTypeLocal
      THEN DeleteAttachmentV2(c, fsys, attachmentID, out)
      ELSE DeleteAttachment(c, fsys, attachmentID, out)

-----------------------------------------------------------------------------
(* The rendering functions of `issue attachment list`.

   A Go string is the sequence of its bytes.  An ASCII character is one byte,
   written as the character; the two-byte character U+00E9 is the bytes "C3"
   and "A9".  len(s) and s[:n] count bytes; `range s` decodes characters. *)

Comma == ","
Quote == "\""
Newline == "\n"
Tab == "\t"

\* The characters `range s` yields: a lead byte with its continuation byte is
\* one character, a stray lead or continuation byte is the error character.
RECURSIVE Runes(_)
Runes(s) ==
    IF s = <<>> THEN <<>>
    ELSE IF Head(s) = "C3" /\ Len(s) >= 2 /\ s[2] = "A9"
      THEN <<"U+00E9">> \o Runes(SubSeq(s, 3, Len(s)))
    ELSE IF Head(s) \in {"C3", "A9"} THEN <<"U+FFFD">> \o Runes(Tail(s))
    ELSE <<Head(s)>> \o Runes(Tail(s))

\* The bytes of a sequence of strings, one after the other.
RECURSIVE Concat(_)
Concat(ss) == IF ss = <<>> THEN <<>> ELSE Head(ss) \o Concat(Tail(ss))

containsSpecialChar(s) ==
    \E i \in 1..Len(Runes(s)) : Runes(s)[i] \in {Comma, Quote, Newline}

\* A variant that doubles the quotes inside the field, as RFC 4180 asks.
escapeCSV_DoubleQuotes(s) ==
    IF containsSpecialChar(s)
      THEN <<Quote>> \o Concat([i \in 1..Len(s) |->
                                  IF s[i] = Quote THEN <<Quote, Quote>> ELSE <<s[i]>>])
                     \o <<Quote>>
      ELSE s

\* fmt.Sprintf(`"%s"`, s) writes the bytes of s between two quotes.
escapeCSV(s) ==
    IF containsSpecialChar(s) THEN <<Quote>> \o s \o <<Quote>> ELSE s

formatDate(date) ==
    IF Len(date) > DateWidth THEN SubSeq(date, 1, DateWidth) ELSE date

(* An int64 byte count is the four digits <<g, m, k, r>> of its expansion to
   the base KB: g * KB^3 + m * KB^2 + k * KB + r with m, k, r below KB.  The
   counts of the model are below 2^53, where float64(bytes) is exact, and so
   is its division by KB, MB or GB, a power of two. *)
Int64(g, m, k, r) == <<g, m, k, r>>

Digit(d) == <<"0", "1", "2", "3", "4", "5", "6", "7", "8", "9">>[d + 1]

\* %d of a number below 2^31.
RECURSIVE Decimal(_)
Decimal(n) == IF n < 10 THEN <<Digit(n)>> ELSE Decimal(n \div 10) \o <<Digit(n % 10)>>

\* %d of an int64: the digits of b divided by ten, then the remainder.
RECURSIVE Decimal64(_)
Decimal64(b) ==
    LET t1 == b[1]
        t2 == (t1 % 10) * KB + b[2]
        t3 == (t2 % 10) * KB + b[3]
        t4 == (t3 % 10) * KB + b[4]
    IN  IF b[1] = 0 /\ b[2] = 0 /\ b[3] = 0 THEN Decimal(b[4])
        ELSE Decimal64(Int64(t1 \div 10, t2 \div 10, t3 \div 10, t4 \div 10))
                \o <<Digit(t4 % 10)>>

(* %.2f of whole + (f1 * KB^2 + f2 * KB + f3) / KB^3: the hundredths of the
   exact value, rounded to the nearest, a tie to the even one, written with
   two digits after the point. *)
Fixed2(whole, f1, f2, f3) ==
    LET t3 == f3 * 100
        t2 == f2 * 100 + t3 \div KB
        t1 == f1 * 100 + t2 \div KB
        d1 == t1 % KB
        d2 == t2 % KB
        d3 == t3 % KB
        down == whole * 100 + t1 \div KB
        above == d1 > KB \div 2 \/ (d1 = KB \div 2 /\ (d2 > 0 \/ d3 > 0))
        tie == d1 = KB \div 2 /\ d2 = 0 /\ d3 = 0
        hundredths == IF above \/ (tie /\ down % 2 = 1) THEN down + 1 ELSE down
    IN  Decimal(hundredths \div 100)
            \o <<".", Digit((hundredths \div 10) % 10), Digit(hundredths % 10)>>

\* A variant with decimal steps: 1000 bytes to the KB.
formatSize_Decimal(bytes) ==
    IF bytes[1] > 0 \/ bytes[2] > 0 \/ bytes[3] > 0 \/ bytes[4] >= 1000
      THEN Fixed2(bytes[3], bytes[4], 0, 0) \o <<" ", "K", "B">>
      ELSE Decimal(bytes[4]) \o <<" ", "B">>

formatSize(bytes) ==
    CASE bytes[1] > 0 ->
           Fixed2(bytes[1], bytes[2], bytes[3], bytes[4]) \o <<" ", "G", "B">>
      [] bytes[1] = 0 /\ bytes[2] > 0 ->
           Fixed2(bytes[2], bytes[3], bytes[4], 0) \o <<" ", "M", "B">>
      [] bytes[1] = 0 /\ bytes[2] = 0 /\ bytes[3] > 0 ->
           Fixed2(bytes[3], bytes[4], 0, 0) \o <<" ", "K", "B">>
      [] OTHER -> Decimal(bytes[4]) \o <<" ", "B">>

\* What a rendering function gives: the bytes written to w and the slice as
\* the function leaves it.
Rendering(out, attachments) == [out |-> out, attachments |-> attachments]

CSVHeader == <<"I", "D", Comma, "F", "I", "L", "E", "N", "A", "M", "E", Comma, "S", "I", "Z", "E", Comma, "A", "U", "T", "H", "O", "R", Comma, "C", "R", "E", "A", "T", "E", "D", Newline>>

\* A variant that shows size and date as the table does.
renderCSV_Formatted(attachments) ==
    Rendering(CSVHeader \o Concat([i \in 1..Len(attachments) |->
                  attachments[i].ID \o <<Comma>>
                      \o escapeCSV(attachments[i].Filename) \o <<Comma>>
                      \o formatSize(attachments[i].Size) \o <<Comma>>
                      \o escapeCSV(attachments[i].Author.DisplayName) \o <<Comma>>
                      \o formatDate(attachments[i].Created) \o <<Newline>>]),
              attachments)

renderCSV(attachments) ==
    Rendering(CSVHeader \o Concat([i \in 1..Len(attachments) |->
                  attachments[i].ID \o <<Comma>>
                      \o escapeCSV(attachments[i].Filename) \o <<Comma>>
                      \o Decimal64(attachments[i].Size) \o <<Comma>>
                      \o escapeCSV(attachments[i].Author.DisplayName) \o <<Comma>>
                      \o attachments[i].Created \o <<Newline>>]),
              attachments)

(* text/tabwriter with minwidth 0, tabwidth 8, padding 1, padchar '\t' and no
   flags.  The text written is cut into lines at newlines and each line into
   cells at tabs; the last cell of a line ends at the newline and belongs to
   no column.  A column block is a run of lines that have a cell in a column;
   the cells of a block are as wide as its widest cell plus the padding,
   and a cell is filled up to that with tabs. *)

\* The pieces of s between the separators.
RECURSIVE SplitOn(_, _)
SplitOn(s, sep) ==
    IF \A i \in 1..Len(s) : s[i] # sep THEN <<s>>
    ELSE LET i == CHOOSE j \in 1..Len(s) : s[j] = sep /\ \A h \in 1..(j - 1) : s[h] # sep
         IN  <<SubSeq(s, 1, i - 1)>> \o SplitOn(SubSeq(s, i + 1, Len(s)), sep)

\* The width of a cell: its characters.
CellWidth(cell) == Len(Runes(cell))

\* A line with the column widths known so far. writePadding: the cell width
\* is taken up to a multiple of tabwidth and the gap after the text is filled
\* with tabs.
WriteLine(line, widths) ==
    LET WritePadding(textw, cellw) ==
            LET full == ((cellw + TabWidth - 1) \div TabWidth) * TabWidth
                n == full - textw
            IN  [i \in 1..((n + TabWidth - 1) \div TabWidth) |-> Tab]
    IN  Concat([j \in 1..Len(line.cells) |->
                  line.cells[j] \o IF j <= Len(widths)
                                     THEN WritePadding(CellWidth(line.cells[j]), widths[j])
                                     ELSE <<>>])
            \o IF line.nl THEN <<Newline>> ELSE <<>>

\* The line has a cell in the column after those of widths.
HasCell(line, widths) == Len(line.cells) - 1 > Len(widths)

\* The lines at the head of ls that have a cell in the next column.
RECURSIVE BlockLen(_, _)
BlockLen(ls, widths) ==
    IF ls = <<>> \/ ~HasCell(Head(ls), widths) THEN 0
    ELSE 1 + BlockLen(Tail(ls), widths)

RECURSIVE MaxOf(_)
MaxOf(ns) ==
    IF ns = <<>> THEN MinWidth
    ELSE IF Head(ns) > MaxOf(Tail(ns)) THEN Head(ns) ELSE MaxOf(Tail(ns))

RECURSIVE TabwriterFormat(_, _)
TabwriterFormat(ls, widths) ==
    IF ls = <<>> THEN <<>>
    ELSE IF ~HasCell(Head(ls), widths)
      THEN WriteLine(Head(ls), widths) \o TabwriterFormat(Tail(ls), widths)
    ELSE LET n == BlockLen(ls, widths)
             width == MaxOf([i \in 1..n |->
                                CellWidth(ls[i].cells[Len(widths) + 1]) + Padding])
         IN  TabwriterFormat(SubSeq(ls, 1, n), Append(widths, width))
                \o TabwriterFormat(SubSeq(ls, n + 1, Len(ls)), widths)

\* What reaches w when the text has been written and the writer flushed: the
\* text is taken as lines of cells, the last line without a newline.
Tabwriter(text) ==
    LET ls == SplitOn(text, Newline)
    IN  TabwriterFormat([i \in 1..Len(ls) |->
                            [cells |-> SplitOn(ls[i], Tab), nl |-> i < Len(ls)]], <<>>)

\* The line renderTable and renderPlain write for an attachment.
TableRow(a) ==
    a.ID \o <<Tab>> \o a.Filename \o <<Tab>> \o formatSize(a.Size) \o <<Tab>>
        \o a.Author.DisplayName \o <<Tab>> \o formatDate(a.Created) \o <<Newline>>

renderTable(attachments) ==
    Rendering(Tabwriter(<<"I", "D", Tab, "F", "I", "L", "E", "N", "A", "M", "E", Tab, "S", "I", "Z", "E", Tab, "A", "U", "T", "H", "O", "R", Tab, "C", "R", "E", "A", "T", "E", "D", Newline>>
                  \o Concat([i \in 1..Len(attachments) |-> TableRow(attachments[i])])),
              attachments)

\* A variant that writes the header as renderTable does.
renderPlain_WithHeader(attachments) == renderTable(attachments)

renderPlain(attachments) ==
    Rendering(Tabwriter(Concat([i \in 1..Len(attachments) |-> TableRow(attachments[i])])),
              attachments)

(* Inputs of the rendering functions *)

\* Byte counts: the counts of the tests, the counts next to a step of the unit
\* and counts whose hundredths fall on, just below and just above a half.
Limbs == {0, 1, 2, 5, 128, 384, 500, 512, 1020, 1023}

\* Attachments: the two of the tests, with file and author names that do and
\* do not need escaping, an empty author, a size below and above 1024 and a
\* date longer and shorter than DateWidth.
ListInputs ==
    SeqsUpTo(
    {[ID |-> id, Filename |-> names[1], Size |-> sd[1],
      Author |-> [DisplayName |-> names[2]], Created |-> sd[2]] :
        id \in {<<"1", "0", "0", "0", "1">>, <<"1", "0", "0", "0", "2">>},
        names \in {<<<<"d", "o", "c", ".", "p", "d", "f">>, <<"J", "o", "h", "n", " ", "D", "o", "e">>>>,
                   <<<<"a", Comma, " ", "b", ".", "t", "x", "t">>, <<"J", " ", Quote, "D", Quote>>>>,
                   <<<<"a", Newline, "b">>, <<>> >>},
        sd \in {<<Int64(0, 1, 0, 0), <<"2", "0", "2", "0", "-", "1", "2", "-", "0", "1", "T", "1", "0", ":", "0", "0", ":", "0", "0", ".", "0", "0", "0", "+", "0", "1", "0", "0">>>>,
                <<Int64(0, 0, 0, 500), <<"2", "0", "2", "0">>>>}},
    MaxAttachments)

NoView ==
    [fn |-> "none", s |-> <<>>, bytes |-> Int64(0, 0, 0, 0), attachments |-> <<>>,
     out |-> <<>>, out2 |-> <<>>, after |-> <<>>]

-----------------------------------------------------------------------------
(* State *)

NoCall ==
    [op |-> "none", key |-> "", filePath |-> <<>>, attachmentID |-> "", url |-> <<>>,
     destPath |-> <<>>, boundary |-> "", readFault |-> FALSE, createFails |-> FALSE,
     copyFault |-> -1, out |-> NoOutcome, attachments |-> <<>>, err |-> NoErr,
     before |-> [p \in Paths |-> NoFile]]

Idle ==
    [name |-> "none", pc |-> "idle", issueKey |-> "", files |-> <<>>, noInput |-> FALSE,
     outputDir |-> <<>>, todo |-> <<>>, idx |-> 0, calls |-> <<>>, err |-> NoErr,
     before |-> [p \in Paths |-> NoFile],
     attachmentID |-> "", fetched |-> FALSE, attachments |-> <<>>, answer |-> ""]

\* NewClient with the configuration of the run.
NewClient(token, authType) ==
    [server |-> <<"srv">>, login |-> "test", token |-> token, authType |-> authType]

Init ==
    /\ client \in {NewClient(t, a) : t \in {"", "token"},
                                      a \in {AuthUnset, AuthTypeBasic, AuthTypeBearer, AuthTypeMTLS}}
    /\ config = client
    /\ installation \in {InstallationTypeCloud, InstallationTypeLocal, ""}
    /\ fs \in [Paths -> {NoFile} \cup {File(<<1, 2>>)}]
    /\ wire = <<>>
    /\ handles = [opened |-> {}, open |-> {}]
    /\ call = NoCall
    /\ cmd = Idle
    /\ view = NoView

\* The state after an operation returned r.
Returned(r) ==
    /\ client' = r.client
    /\ fs' = r.fs
    /\ wire' = wire \o r.sent

\* The handles after an operation with the handles h returned.
Released(h) ==
    handles' = [opened |-> handles.opened \cup h.acquired,
                open |-> handles.open \cup (h.acquired \ h.deferred)]

-----------------------------------------------------------------------------
(* Direct calls of the client operations, one per run. *)

Called == [Idle EXCEPT !.name = "call", !.pc = "done"]

UploadCall(op, key, filePath, env, r) ==
    /\ Returned(r)
    /\ Released(uploadAttachmentHandles(fs, filePath, env))
    /\ call' = [NoCall EXCEPT !.op = op, !.key = key, !.filePath = filePath,
                              !.boundary = env.boundary, !.readFault = env.readFault,
                              !.out = env.out, !.attachments = r.attachments,
                              !.err = r.err, !.before = fs]
    /\ cmd' = Called
    /\ UNCHANGED settings

CallUploadAttachment ==
    /\ cmd.pc = "idle"
    /\ \E key \in Keys, filePath \in Paths :
         \E env \in UploadEnvs(fs, filePath) :
            UploadCall("UploadAttachment", key, filePath, env,
                       UploadAttachment(client, fs, key, filePath, env))

CallUploadAttachmentV2 ==
    /\ cmd.pc = "idle"
    /\ \E key \in Keys, filePath \in Paths :
         \E env \in UploadEnvs(fs, filePath) :
            UploadCall("UploadAttachmentV2", key, filePath, env,
                       UploadAttachmentV2(client, fs, key, filePath, env))

CallProxyUploadAttachment ==
    /\ cmd.pc = "idle"
    /\ \E key \in Keys, filePath \in Paths :
         \E env \in UploadEnvs(fs, filePath) :
            UploadCall("ProxyUploadAttachment", key, filePath, env,
                       ProxyUploadAttachment(client, installation, fs, key, filePath, env))

DeleteCall(op, attachmentID, out, r) ==
    /\ Returned(r)
    /\ Released(deleteAttachmentHandles(out))
    /\ call' = [NoCall EXCEPT !.op = op, !.attachmentID = attachmentID, !.out = out,
                              !.err = r.err, !.before = fs]
    /\ cmd' = Called
    /\ UNCHANGED settings

CallDeleteAttachment ==
    /\ cmd.pc = "idle"
    /\ \E attachmentID \in AttachmentIDs, out \in ApiOutcomes :
        DeleteCall("DeleteAttachment", attachmentID, out,
                   DeleteAttachment(client, fs, attachmentID, out))

CallDeleteAttachmentV2 ==
    /\ cmd.pc = "idle"
    /\ \E attachmentID \in AttachmentIDs, out \in ApiOutcomes :
        DeleteCall("DeleteAttachmentV2", attachmentID, out,
                   DeleteAttachmentV2(client, fs, attachmentID, out))

CallProxyDeleteAttachment ==
    /\ cmd.pc = "idle"
    /\ \E attachmentID \in AttachmentIDs, out \in ApiOutcomes :
        DeleteCall("ProxyDeleteAttachment", attachmentID, out,
                   ProxyDeleteAttachment(client, installation, fs, attachmentID, out))

CallDownloadAttachment ==
    /\ cmd.pc = "idle"
    /\ \E id \in AttachmentIDs, destPath \in Paths, env \in DownloadEnvs :
        LET r == DownloadAttachment(client, fs, ContentURL(id), destPath, env)
        IN  /\ Returned(r)
            /\ Released(DownloadAttachmentHandles(env))
            /\ call' = [NoCall EXCEPT !.op = "DownloadAttachment", !.url = ContentURL(id),
                                      !.destPath = destPath,
                                      !.createFails = env.createFails,
                                      !.copyFault = env.copyFault, !.out = env.out,
                                      !.err = r.err, !.before = fs]
            /\ cmd' = Called
            /\ UNCHANGED settings

-----------------------------------------------------------------------------
(* Commands.  cmdutil.Failed and cmdutil.ExitIfError end the process: the
   command is then at "failed" and takes no further step. *)

Failed(msg) == Err("Failed", 0, <<msg>>)
ErrPrompt == Err("PromptError", 0, <<>>)
ErrGetIssue == Err("GetIssueError", 0, <<>>)
ErrMkdir == Err("MkdirError", 0, <<>>)

\* os.Stat of a path returns no error / an IsNotExist error.
Exists(fsys, path) == fsys[path].kind # "none"

Exit(c, err) == [c EXCEPT !.pc = "failed", !.err = err]

\* One invocation of a client operation by a command.
Invocation(arg, r) == [arg |-> arg, err |-> r.err, sent |-> Len(r.sent)]

(* `issue attachment add ISSUE-KEY FILE...` *)

\* A variant that validates the first file only.
addChecks_FirstFileOnly(c, fsys) ==
    IF c.issueKey = "" THEN Exit(c, Failed("ISSUE-KEY is required"))
    ELSE IF Len(c.files) = 0 THEN Exit(c, Failed("At least one file path is required"))
    ELSE IF ~Exists(fsys, c.files[1]) THEN Exit(c, Failed("File does not exist"))
    ELSE IF ~c.noInput THEN [c EXCEPT !.pc = "confirm"]
    ELSE [c EXCEPT !.pc = "upload", !.idx = 1]

\* The argument checks and the validation that every file exists.
addChecks(c, fsys) ==
    IF c.issueKey = "" THEN Exit(c, Failed("ISSUE-KEY is required"))
    ELSE IF Len(c.files) = 0 THEN Exit(c, Failed("At least one file path is required"))
    ELSE IF \E i \in 1..Len(c.files) : ~Exists(fsys, c.files[i])
      THEN Exit(c, Failed("File does not exist"))
    ELSE IF ~c.noInput THEN [c EXCEPT !.pc = "confirm"]
    ELSE [c EXCEPT !.pc = "upload", !.idx = 1]

addBegin ==
    /\ cmd.pc = "idle"
    /\ \E key \in Keys \cup {""}, files \in SeqsUpTo(Paths, MaxFiles), noInput \in BOOLEAN :
        /\ cmd' = addChecks([Idle EXCEPT !.name = "add", !.issueKey = key,
                                         !.files = files, !.noInput = noInput,
                                         !.before = fs], fs)
        /\ UNCHANGED <<client, settings, fs, wire, handles, call>>

\* The confirmation prompt: survey.Ask fails, or the user picks an action.
addAnswer(c, answer) ==
    LET c1 == [c EXCEPT !.answer = answer]
    IN  IF answer = "error" THEN Exit(c1, ErrPrompt)
        ELSE IF answer = ActionCancel THEN Exit(c1, Failed("Action aborted"))
        ELSE [c1 EXCEPT !.pc = "upload", !.idx = 1]

addConfirm ==
    /\ cmd.name = "add" /\ cmd.pc = "confirm"
    /\ \E answer \in {"error", ActionSubmit, ActionCancel} :
        /\ cmd' = addAnswer(cmd, answer)
        /\ UNCHANGED <<client, settings, fs, wire, handles, call>>

\* A variant that goes on to the next file after a failed upload.
addUploaded_Continue(c, file, r) ==
    [c EXCEPT !.calls = Append(@, Invocation(file, r)), !.idx = @ + 1]

\* One iteration of the upload loop.
addUploaded(c, file, r) ==
    LET c1 == [c EXCEPT !.calls = Append(@, Invocation(file, r))]
    IN  IF r.err # NoErr THEN Exit(c1, r.err) ELSE [c1 EXCEPT !.idx = @ + 1]

addUpload ==
    /\ cmd.name = "add" /\ cmd.pc = "upload" /\ cmd.idx <= Len(cmd.files)
    /\ \E env \in UploadEnvs(fs, cmd.files[cmd.idx]) :
        LET file == cmd.files[cmd.idx]
            r == ProxyUploadAttachment(client, installation, fs, cmd.issueKey, file, env)
        IN  /\ Returned(r)
            /\ Released(uploadAttachmentHandles(fs, file, env))
            /\ cmd' = addUploaded(cmd, file, r)
            /\ UNCHANGED <<settings, call>>

addFinish ==
    /\ cmd.name = "add" /\ cmd.pc = "upload" /\ cmd.idx > Len(cmd.files)
    /\ cmd' = [cmd EXCEPT !.pc = "done"]
    /\ UNCHANGED <<client, settings, fs, wire, handles, call>>

(* `issue attachment download ISSUE-KEY [FILENAME]` *)

\* The attachments an issue may carry: their IDs are distinct.
IssueAttachments ==
    {s \in SeqsUpTo({Attachment(id, f, ContentURL(id)) : id \in AttachmentIDs,
                                                          f \in Filenames},
                    MaxAttachments) :
        \A i, j \in 1..Len(s) : s[i].ID = s[j].ID => i = j}

RECURSIVE FirstWhere(_, _, _)
FirstWhere(attachments, field, value) ==
    IF attachments = <<>> THEN <<>>
    ELSE IF Head(attachments)[field] = value THEN <<Head(attachments)>>
    ELSE FirstWhere(Tail(attachments), field, value)

findAttachmentByID(attachments, id) == FirstWhere(attachments, "ID", id)
findAttachmentByFilename(attachments, filename) ==
    FirstWhere(attachments, "Filename", filename)

\* Everything before the download loop: argument checks, the issue fetch, the
\* output directory and the selection of the attachments.
downloadChecks(c, issue, mkdirFails, all, id, filename) ==
    LET found == IF all THEN issue.attachments
                 ELSE IF id # "" THEN findAttachmentByID(issue.attachments, id)
                 ELSE findAttachmentByFilename(issue.attachments, filename)
    IN  IF c.issueKey = "" THEN Exit(c, Failed("ISSUE-KEY is required"))
        ELSE IF ~issue.ok THEN Exit(c, ErrGetIssue)
        ELSE IF Len(issue.attachments) = 0 THEN Exit(c, Failed("No attachments found"))
        ELSE IF mkdirFails THEN Exit(c, ErrMkdir)
        ELSE IF ~all /\ id = "" /\ filename = ""
          THEN Exit(c, Failed("Please specify --all, --id, or provide a filename"))
        ELSE IF found = <<>> THEN Exit(c, Failed("Attachment not found"))
        ELSE [c EXCEPT !.pc = "loop", !.idx = 1, !.todo = found]

downloadBegin ==
    /\ cmd.pc = "idle"
    /\ \E key \in Keys \cup {""}, dir \in Dirs, all \in BOOLEAN,
          id \in AttachmentIDs \cup {""}, filename \in Filenames \cup {""},
          ok \in BOOLEAN, attachments \in IssueAttachments, mkdirFails \in BOOLEAN :
        /\ cmd' = downloadChecks([Idle EXCEPT !.name = "download", !.issueKey = key,
                                              !.outputDir = <<dir>>, !.before = fs],
                                 [ok |-> ok, attachments |-> attachments],
                                 mkdirFails, all, id, filename)
        /\ UNCHANGED <<client, settings, fs, wire, handles, call>>

\* A variant without the check.
downloadRefuses_Never(fsys, destPath) == FALSE

\* The check before a download: os.Stat of the destination returns no error.
downloadRefuses(fsys, destPath) == Exists(fsys, destPath)

\* One iteration of the download loop: the check that the destination does not
\* exist, then the download.
downloadNext ==
    /\ cmd.name = "download" /\ cmd.pc = "loop" /\ cmd.idx <= Len(cmd.todo)
    /\ \E env \in DownloadEnvs :
        LET a == cmd.todo[cmd.idx]
            destPath == FilepathJoin(cmd.outputDir, a.Filename)
            r == DownloadAttachment(client, fs, a.Content, destPath, env)
            c1 == [cmd EXCEPT !.calls = Append(@, Invocation(destPath, r))]
        IN  /\ IF downloadRefuses(fs, destPath)
                 THEN /\ cmd' = Exit(cmd, Failed("File already exists"))
                      /\ UNCHANGED <<client, fs, wire, handles>>
                 ELSE /\ Returned(r)
                      /\ Released(DownloadAttachmentHandles(env))
                      /\ cmd' = IF r.err # NoErr THEN Exit(c1, r.err)
                                ELSE [c1 EXCEPT !.idx = @ + 1]
            /\ UNCHANGED <<settings, call>>

downloadFinish ==
    /\ cmd.name = "download" /\ cmd.pc = "loop" /\ cmd.idx > Len(cmd.todo)
    /\ cmd' = [cmd EXCEPT !.pc = "done"]
    /\ UNCHANGED <<client, settings, fs, wire, handles, call>>

(* `issue attachment remove ISSUE-KEY ATTACHMENT-ID` *)

\* Everything before the prompt: the argument checks, the issue fetch and the
\* search for the attachment ID among the issue's attachments.
removeChecks(c, issue) ==
    LET c1 == [c EXCEPT !.fetched = TRUE, !.attachments = issue.attachments]
        found == FirstWhere(issue.attachments, "ID", c.attachmentID)
    IN  IF c.issueKey = "" THEN Exit(c, Failed("ISSUE-KEY is required"))
        ELSE IF c.attachmentID = "" THEN Exit(c, Failed("ATTACHMENT-ID is required"))
        ELSE IF ~issue.ok THEN Exit(c, ErrGetIssue)
        ELSE IF found = <<>> THEN Exit(c1, Failed("Attachment not found on issue"))
        ELSE IF ~c.noInput THEN [c1 EXCEPT !.todo = found, !.pc = "confirm"]
        ELSE [c1 EXCEPT !.todo = found, !.pc = "delete"]

removeBegin ==
    /\ cmd.pc = "idle"
    /\ \E key \in Keys \cup {""}, id \in AttachmentIDs \cup {""}, noInput \in BOOLEAN,
          ok \in BOOLEAN, attachments \in IssueAttachments :
        /\ cmd' = removeChecks([Idle EXCEPT !.name = "remove", !.issueKey = key,
                                            !.attachmentID = id, !.noInput = noInput,
                                            !.before = fs],
                               [ok |-> ok, attachments |-> IF ok THEN attachments ELSE <<>>])
        /\ UNCHANGED <<client, settings, fs, wire, handles, call>>

\* A variant that goes on to the delete when the user picks Cancel.
removeAnswer_IgnoreCancel(c, answer) ==
    IF answer = "error" THEN Exit([c EXCEPT !.answer = answer], ErrPrompt)
    ELSE [c EXCEPT !.answer = answer, !.pc = "delete"]

\* The confirmation prompt: survey.Ask fails, or the user picks an action.
removeAnswer(c, answer) ==
    LET c1 == [c EXCEPT !.answer = answer]
    IN  IF answer = "error" THEN Exit(c1, ErrPrompt)
        ELSE IF answer = ActionCancel THEN Exit(c1, Failed("Action aborted"))
        ELSE [c1 EXCEPT !.pc = "delete"]

removeConfirm ==
    /\ cmd.name = "remove" /\ cmd.pc = "confirm"
    /\ \E answer \in {"error", ActionSubmit, ActionCancel} :
        /\ cmd' = removeAnswer(cmd, answer)
        /\ UNCHANGED <<client, settings, fs, wire, handles, call>>

\* The delete and the end of the command.
removeDelete ==
    /\ cmd.name = "remove" /\ cmd.pc = "delete"
    /\ \E out \in ApiOutcomes :
        LET r == ProxyDeleteAttachment(client, installation, fs, cmd.attachmentID, out)
            c1 == [cmd EXCEPT !.calls = Append(@, Invocation(<<cmd.attachmentID>>, r))]
        IN  /\ Returned(r)
            /\ Released(deleteAttachmentHandles(out))
            /\ cmd' = IF r.err # NoErr THEN Exit(c1, r.err) ELSE [c1 EXCEPT !.pc = "done"]
            /\ UNCHANGED <<settings, call>>

-----------------------------------------------------------------------------

Next ==
    \/ CallUploadAttachment
    \/ CallUploadAttachmentV2
    \/ CallProxyUploadAttachment
    \/ CallDeleteAttachment
    \/ CallDeleteAttachmentV2
    \/ CallProxyDeleteAttachment
    \/ CallDownloadAttachment
    \/ addBegin
    \/ addConfirm
    \/ addUpload
    \/ addFinish
    \/ downloadBegin
    \/ downloadNext
    \/ downloadFinish
    \/ removeBegin
    \/ removeConfirm
    \/ removeDelete

Spec == Init /\ [][Next]_vars

-----------------------------------------------------------------------------
(* Calls of the rendering functions, one per run, on a program that does
   nothing else. *)

ViewInit ==
    /\ client = NewClient("token", AuthUnset)
    /\ config = client
    /\ installation = ""
    /\ fs = [p \in Paths |-> NoFile]
    /\ wire = <<>>
    /\ handles = [opened |-> {}, open |-> {}]
    /\ call = NoCall
    /\ cmd = Idle
    /\ view = NoView

Rendered(v) ==
    /\ view.fn = "none"
    /\ view' = v
    /\ UNCHANGED <<client, config, installation, fs, wire, handles, call, cmd>>

\* Field values: every byte string of up to MaxField bytes over plain and
\* special characters and the bytes of a two-byte character.
CallEscapeCSV ==
    \E s \in SeqsUpTo({"a", Comma, Quote, Newline, "C3", "A9"}, MaxField) :
        Rendered([NoView EXCEPT !.fn = "escapeCSV", !.s = s, !.out = escapeCSV(s),
                                !.out2 = escapeCSV(escapeCSV(s))])

\* Dates: the dates of TestFormatDate and every string of up to MaxDateChars
\* characters, each a digit or a two-byte character.
CallFormatDate ==
    \E s \in {<<"2", "0", "2", "0", "-", "1", "2", "-", "0", "1", "T", "1", "0", ":", "0", "0", ":", "0", "0", ".", "0", "0", "0", "+", "0", "1", "0", "0">>,
              <<"2", "0", "2", "0", "-", "1", "2", "-", "0", "1">>,
              <<"2", "0", "2", "0">>}
             \cup {Concat(cs) : cs \in SeqsUpTo({<<"2">>, <<"C3", "A9">>}, MaxDateChars)} :
        Rendered([NoView EXCEPT !.fn = "formatDate", !.s = s, !.out = formatDate(s)])

CallFormatSize ==
    \E g \in 0..MaxGiB, m \in Limbs, k \in Limbs, r \in Limbs :
        LET b == Int64(g, m, k, r)
        IN  Rendered([NoView EXCEPT !.fn = "formatSize", !.bytes = b, !.out = formatSize(b)])

\* The rendering `list` picks for the attachments of an issue: --csv, --plain
\* or neither.
CallRender ==
    \E attachments \in ListInputs :
        LET View(fn, r) ==
                [NoView EXCEPT !.fn = fn, !.attachments = attachments, !.out = r.out,
                               !.after = r.attachments]
        IN  \/ Rendered(View("renderCSV", renderCSV(attachments)))
            \/ Rendered(View("renderPlain", renderPlain(attachments)))
            \/ Rendered(View("renderTable", renderTable(attachments)))

ViewNext ==
    \/ CallEscapeCSV
    \/ CallFormatDate
    \/ CallFormatSize
    \/ CallRender

ViewSpec == ViewInit /\ [][ViewNext]_vars

-----------------------------------------------------------------------------
(* Properties *)

UploadOps == {"UploadAttachment", "UploadAttachmentV2", "ProxyUploadAttachment"}
DeleteOps == {"DeleteAttachment", "DeleteAttachmentV2", "ProxyDeleteAttachment"}

\* The API version a direct call runs with.
CallVersion ==
    IF call.op \in {"UploadAttachmentV2", "DeleteAttachmentV2"} THEN apiVersion2
    ELSE IF call.op \in {"UploadAttachment", "DeleteAttachment"} THEN apiVersion3
    ELSE IF installation = "Local" THEN apiVersion2
    ELSE apiVersion3

\* The response the transport gave to a direct call, if it gave one.
Answered == call.out.kind = "resp"

(* C1: the request path of an upload and of a delete is decided by the API
   version alone: POST /rest/api/3/issue/{key}/attachments and
   DELETE /rest/api/3/attachment/{id} under v3 (installation cloud or unset),
   the same under /rest/api/2 under v2 (installation local), and these
   operations request nothing else. *)
C1_PathByVersion ==
    /\ call.op \in UploadOps =>
         \A i \in 1..Len(wire) :
            /\ wire[i].method = "POST"
            /\ wire[i].url[1] = "srv"
            /\ URLPath(wire[i].url) =
                 IF CallVersion = "v2"
                   THEN <<"rest", "api", "2", "issue", call.key, "attachments">>
                   ELSE <<"rest", "api", "3", "issue", call.key, "attachments">>
    /\ call.op \in DeleteOps =>
         \A i \in 1..Len(wire) :
            /\ wire[i].method = "DELETE"
            /\ wire[i].url[1] = "srv"
            /\ URLPath(wire[i].url) =
                 IF CallVersion = "v2"
                   THEN <<"rest", "api", "2", "attachment", call.attachmentID>>
                   ELSE <<"rest", "api", "3", "attachment", call.attachmentID>>
    /\ cmd.name = "add" =>
         \A i \in 1..Len(wire) :
            /\ wire[i].method = "POST"
            /\ URLPath(wire[i].url) =
                 IF installation = "Local"
                   THEN <<"rest", "api", "2", "issue", cmd.issueKey, "attachments">>
                   ELSE <<"rest", "api", "3", "issue", cmd.issueKey, "attachments">>

\* An upload through the proxy under a local installation reached the v2 path.
C1_Witness ==
    /\ call.op = "ProxyUploadAttachment" /\ installation = "Local"
    /\ Len(wire) = 1
    /\ URLPath(wire[1].url) = <<"rest", "api", "2", "issue", "TEST-1", "attachments">>

(* C2: Upload returns attachment records only after a 200: every other status
   (201 and 204 too) gives an UnexpectedResponse error and no records, and a
   200 whose body is a JSON array of attachment objects gives exactly the
   records of the array, in its order, whatever its length. *)
C2_RecordsOnlyOn200 ==
    call.op \in UploadOps =>
        /\ call.attachments # <<>> => Answered /\ call.out.status = 200
        /\ Answered /\ call.out.status # 200 =>
             /\ call.err.kind = "UnexpectedResponse"
             /\ call.err.status = call.out.status
             /\ call.attachments = <<>>
        /\ /\ Answered /\ call.out.status = 200 /\ call.out.body.kind = "array"
           /\ \A i \in 1..Len(call.out.body.items) : call.out.body.items[i].kind = "object"
           => /\ call.err = NoErr
              /\ Len(call.attachments) = Len(call.out.body.items)
              /\ \A i \in 1..Len(call.attachments) :
                    /\ call.attachments[i].ID = call.out.body.items[i].id
                    /\ call.attachments[i].Filename = call.out.body.items[i].filename
                    /\ call.attachments[i].Content = call.out.body.items[i].content

\* A 200 with an array of two different objects gave two records.
C2_Witness ==
    /\ call.op \in UploadOps /\ Answered /\ call.out.status = 200
    /\ call.out.body.kind = "array" /\ Len(call.out.body.items) = 2
    /\ Len(call.attachments) = 2
    /\ call.attachments[1].ID = "10002" /\ call.attachments[2].ID = "10001"

(* C3: Delete returns no error exactly when the response status is 204 or
   200; every other status, 404 too, gives an UnexpectedResponse error. *)
C3_DeleteSuccess ==
    call.op \in DeleteOps =>
        /\ call.err = NoErr <=> Answered /\ call.out.status \in {200, 204}
        /\ Answered /\ call.out.status \notin {200, 204} =>
             /\ call.err.kind = "UnexpectedResponse"
             /\ call.err.status = call.out.status

\* A delete answered with 404 returned UnexpectedResponse.
C3_Witness ==
    /\ call.op \in DeleteOps /\ Answered /\ call.out.status = 404
    /\ call.err.kind = "UnexpectedResponse"

(* C4: Download writes the destination only after a 200: after a 200 whose
   body was read to its end into the created file, the file holds exactly the
   body and Download returns no error; after any other status Download
   returns DownloadFailed with the status and the file system is as before
   (no file created, an existing file unchanged). *)
C4_DownloadWrites ==
    call.op = "DownloadAttachment" =>
        /\ /\ Answered /\ call.out.status = 200
           /\ ~call.createFails /\ call.copyFault = -1
           => /\ call.err = NoErr
              /\ fs[call.destPath] = [kind |-> "file", data |-> call.out.body.raw]
              /\ \A p \in Paths \ {call.destPath} : fs[p] = call.before[p]
        /\ Answered /\ call.out.status # 200 =>
              /\ call.err.kind = "DownloadFailed"
              /\ call.err.status = call.out.status
              /\ fs = call.before
        /\ fs # call.before => Answered /\ call.out.status = 200

\* A 404 left an existing destination file as it was.
C4_Witness ==
    /\ call.op = "DownloadAttachment" /\ Answered /\ call.out.status = 404
    /\ call.before[call.destPath].kind = "file"
    /\ fs[call.destPath] = call.before[call.destPath]
    /\ call.err.kind = "DownloadFailed"

(* C5: `add` uploads its files in argument order, one upload per file and none
   repeated: the upload of a file starts only after the uploads of all files
   before it returned without error, each upload sends at most one request,
   the i-th request carries the i-th file, and a run that ends well sent
   exactly one request per file. *)
C5_SequentialUpload ==
    cmd.name = "add" =>
        /\ Len(cmd.calls) <= Len(cmd.files)
        /\ \A i \in 1..Len(cmd.calls) :
              /\ cmd.calls[i].arg = cmd.files[i]
              /\ cmd.calls[i].sent <= 1
              /\ cmd.calls[i].err = NoErr => cmd.calls[i].sent = 1
              /\ i < Len(cmd.calls) => cmd.calls[i].err = NoErr
        /\ Len(wire) <= Len(cmd.calls)
        /\ Len(wire) >= Len(cmd.calls) - 1
        /\ \A i \in 1..Len(wire) :
              /\ wire[i].method = "POST"
              /\ wire[i].body[2].filename = cmd.files[i][2]
        /\ cmd.pc = "upload" =>
              /\ Len(cmd.calls) = cmd.idx - 1
              /\ \A i \in 1..Len(cmd.calls) : cmd.calls[i].err = NoErr
        /\ cmd.pc = "done" =>
              /\ Len(wire) = Len(cmd.files)
              /\ \A i \in 1..Len(cmd.calls) : cmd.calls[i].err = NoErr
        /\ cmd.pc = "failed" /\ cmd.calls # <<>> =>
              cmd.err = cmd.calls[Len(cmd.calls)].err /\ cmd.err # NoErr

\* The upload of the first of two files failed and the run ended with the one
\* request.
C5_Witness ==
    /\ cmd.name = "add" /\ cmd.pc = "failed"
    /\ Len(cmd.files) = 2 /\ cmd.files[1] # cmd.files[2]
    /\ Len(cmd.calls) = 1 /\ cmd.calls[1].err.kind = "UnexpectedResponse"
    /\ Len(wire) = 1

(* C6: in a step of `download`, DownloadAttachment is invoked only for a
   destination (output directory joined with the file name) at which no file
   exists; when a file exists there the command fails without a request;
   after a failure nothing more is downloaded; and no step changes a file
   that exists, be it from before the run or written earlier in the run. *)
C6_Step ==
    cmd'.name = "download" =>
        /\ \A p \in Paths : fs[p].kind = "file" => fs'[p] = fs[p]
        /\ cmd'.calls # cmd.calls =>
              /\ Len(cmd'.calls) = Len(cmd.calls) + 1
              /\ fs[cmd'.calls[Len(cmd'.calls)].arg].kind = "none"
              /\ cmd'.calls[Len(cmd'.calls)].arg =
                    cmd.outputDir \o <<cmd.todo[cmd.idx].Filename>>
        /\ /\ cmd.pc = "loop" /\ cmd.idx <= Len(cmd.todo)
           /\ fs[cmd.outputDir \o <<cmd.todo[cmd.idx].Filename>>].kind = "file"
           => cmd'.pc = "failed" /\ cmd'.calls = cmd.calls /\ wire' = wire /\ fs' = fs
        /\ wire' # wire => cmd'.calls # cmd.calls
        /\ cmd.pc = "failed" => wire' = wire /\ fs' = fs

C6_NoOverwrite == [][C6_Step]_vars

\* The second of two attachments with one file name was refused after the
\* first had been written.
C6_Witness ==
    /\ cmd.name = "download" /\ cmd.pc = "failed"
    /\ cmd.err.messages = <<"File already exists">>
    /\ Len(cmd.todo) = 2 /\ cmd.todo[1].Filename = cmd.todo[2].Filename
    /\ cmd.idx = 2 /\ Len(cmd.calls) = 1 /\ cmd.calls[1].err = NoErr
    /\ cmd.before[cmd.calls[1].arg].kind = "none"
    /\ Len(wire) = 1

\* The Authorization header the client's auth type asks for.
ExpectedAuthorization ==
    IF client.authType = "bearer" THEN << <<"Bearer", client.token>> >>
    ELSE IF client.authType = "mtls"
      THEN IF client.token = "" THEN <<>> ELSE << <<"Bearer", client.token>> >>
    ELSE << <<"Basic", "test", ":", client.token>> >>

(* C7: every upload request, under either API version, carries
   X-Atlassian-Token: no-check, a Content-Type multipart/form-data whose
   boundary is the one that delimits the body, and the Authorization header
   of the client's auth type. *)
C7_UploadHeaders ==
    call.op \in UploadOps \/ cmd.name = "add" =>
        \A i \in 1..Len(wire) :
            /\ wire[i].header["X-Atlassian-Token"] = << <<"no-check">> >>
            /\ \E b \in Boundaries :
                  /\ wire[i].header["Content-Type"] = << <<"multipart/form-data", b>> >>
                  /\ wire[i].body[1].t = "delim" /\ wire[i].body[1].b = b
                  /\ wire[i].body[Len(wire[i].body)].t = "close"
                  /\ wire[i].body[Len(wire[i].body)].b = b
            /\ wire[i].header["Authorization"] = ExpectedAuthorization

\* A v2 upload request went out with a bearer token.
C7_Witness ==
    /\ call.op = "UploadAttachmentV2" /\ Len(wire) = 1
    /\ client.authType = "bearer"
    /\ wire[1].header["Authorization"] = << <<"Bearer", "token">> >>
    /\ wire[1].header["X-Atlassian-Token"] = << <<"no-check">> >>

(* C8: the body of an upload request parses, under the boundary of its
   Content-Type, to exactly one part, named file, whose file name is the last
   component of the local path and whose content is the content of the local
   file; and when the file does not exist Upload returns the not-exist error
   and sends no request. *)
C8_MultipartBody ==
    call.op \in UploadOps =>
        /\ \A i \in 1..Len(wire) :
              /\ Len(wire[i].header["Content-Type"]) = 1
              /\ ParseParts(wire[i].body, wire[i].header["Content-Type"][1][2]) =
                    [ok |-> TRUE,
                     parts |-> <<[name |-> "file",
                                  filename |-> call.filePath[2],
                                  content |-> call.before[call.filePath].data]>>]
        /\ call.before[call.filePath].kind = "none" =>
              call.err.kind = "NotExist" /\ wire = <<>>

\* A request went out whose part holds the two bytes of the file.
C8_Witness ==
    /\ call.op \in UploadOps /\ Len(wire) = 1
    /\ call.before[call.filePath].data = <<1, 2>>
    /\ ParseParts(wire[1].body, call.boundary).parts[1].content = <<1, 2>>

\* A body that json.Decoder.Decode cannot decode into []Attachment.
Undecodable(body) ==
    \/ body.kind \in {"raw", "object"}
    \/ body.kind = "array" /\ \E i \in 1..Len(body.items) : body.items[i].kind # "object"

(* C9, as stated: a 200 whose body cannot be decoded as a JSON array of
   attachments makes Upload return an UnexpectedResponse error with the
   status and the server's error messages. *)
C9_DecodeFailureIsUnexpectedResponse ==
    call.op \in UploadOps /\ Answered /\ call.out.status = 200
        /\ Undecodable(call.out.body)
    => /\ call.err.kind = "UnexpectedResponse"
       /\ call.err.status = 200

(* C9, amended: a 200 whose body cannot be decoded as a JSON array of
   attachments makes Upload return the decoder's error as it is, which is not
   an UnexpectedResponse and carries neither the status nor the server's
   error messages, and no attachment records. *)
C9_DecodeErrorAsIs ==
    call.op \in UploadOps /\ Answered /\ call.out.status = 200
        /\ Undecodable(call.out.body)
    => /\ call.err.kind = "DecodeError"
       /\ call.err.status = 0 /\ call.err.messages = <<>>
       /\ call.attachments = <<>>

\* A 200 with an error object for a body gave the decode error.
C9_Witness ==
    /\ call.op \in UploadOps /\ Answered /\ call.out.status = 200
    /\ call.out.body.kind = "object" /\ call.out.body.messages # <<>>
    /\ call.err.kind = "DecodeError"

(* C10: in Upload and Delete, a transport that returns no response and no
   error gives the EmptyResponse error (not success, not UnexpectedResponse),
   and a transport error is returned as it is. *)
C10_EmptyResponse ==
    call.op \in UploadOps \cup DeleteOps =>
        /\ call.out.kind = "nil" =>
              call.err = [kind |-> "EmptyResponse", status |-> 0, messages |-> <<>>]
        /\ call.out.kind = "err" =>
              call.err = [kind |-> "TransportError", status |-> 0,
                          messages |-> <<call.out.cause>>]
        /\ call.err.kind = "EmptyResponse" => call.out.kind = "nil"

\* A delete whose transport returned neither response nor error.
C10_Witness ==
    /\ call.op \in DeleteOps /\ call.out.kind = "nil"
    /\ call.err.kind = "EmptyResponse"

(* C11: Download never takes a partial copy for a success.  After a 200, when
   os.Create fails Download returns the create error and writes nothing; when
   io.Copy stops with an error Download returns the copy error, whatever part
   of the body reached the file; and Download returns no error only when the
   transport answered 200, the file was created and the file holds the whole
   body.  The same holds for each download the `download` command makes. *)
C11_NoPartialSuccess ==
    /\ call.op = "DownloadAttachment" =>
        /\ Answered /\ call.out.status = 200 /\ call.createFails =>
              /\ call.err = [kind |-> "CreateError", status |-> 0, messages |-> <<>>]
              /\ fs = call.before
        /\ Answered /\ call.out.status = 200 /\ ~call.createFails /\ call.copyFault >= 0 =>
              /\ call.err = [kind |-> "CopyError", status |-> 0, messages |-> <<>>]
              /\ fs[call.destPath].kind = "file"
              /\ fs[call.destPath].data = SubSeq(call.out.body.raw, 1, call.copyFault)
        /\ call.err = NoErr =>
              /\ Answered /\ call.out.status = 200
              /\ ~call.createFails /\ call.copyFault = -1
              /\ fs[call.destPath] = [kind |-> "file", data |-> call.out.body.raw]
    /\ cmd.name = "download" =>
        \A i \in 1..Len(cmd.calls) :
            /\ i < Len(cmd.calls) => cmd.calls[i].err = NoErr
            /\ cmd.calls[i].err.kind \in {"CreateError", "CopyError"} =>
                  cmd.pc = "failed" /\ cmd.err = cmd.calls[i].err

\* A copy that stopped after the first of two bytes: the error came back and
\* the file holds the one byte.
C11_Witness ==
    /\ call.op = "DownloadAttachment" /\ Answered /\ call.out.status = 200
    /\ call.out.body.raw = <<1, 2>> /\ call.copyFault = 1
    /\ call.err.kind = "CopyError"
    /\ fs[call.destPath].data = <<1>>

\* The Authorization header the configured auth type asks for.
ConfiguredAuthorization ==
    CASE config.authType = "bearer" -> << <<"Bearer", config.token>> >>
      [] config.authType = "mtls" ->
           IF config.token = "" THEN <<>> ELSE << <<"Bearer", config.token>> >>
      [] config.authType \in {"basic", "nil"} ->
           << <<"Basic", config.login, ":", config.token>> >>

(* C12: every request that reaches the transport, of an upload, a delete or a
   download, made directly or by a command, carries the credential of the
   configured auth type and no other: HTTP Basic of login and token under
   basic and under an unset auth type, Bearer token under bearer, Bearer token
   under mutual TLS when the token is not empty and no Authorization header
   when it is; and an operation that reached the transport sent a request. *)
C12_ApplyAuth ==
    /\ \A i \in 1..Len(wire) :
          /\ wire[i].header["Authorization"] = ConfiguredAuthorization
          /\ Len(wire[i].header["Authorization"]) <= 1
          /\ Len(wire[i].header["Authorization"]) = 0 =>
                config.authType = "mtls" /\ config.token = ""
    /\ call.out.kind # "none" => Len(wire) = 1

\* A delete went out under mutual TLS with an empty token and no
\* Authorization header.
C12_Witness ==
    /\ call.op \in DeleteOps /\ Len(wire) = 1
    /\ config.authType = "mtls" /\ config.token = ""
    /\ wire[1].header["Authorization"] = <<>>

(* C13, as stated: no operation changes a field of the client, so that after
   any sequence of operations the client is as NewClient returned it. *)
C13_ClientReadOnly == client = config

(* C13, what holds: server, login and token are never written, and the auth
   type is written at most once, from unset to basic, by the first applyAuth. *)
C13_OnlyAuthTypeDefaulted ==
    /\ client.server = config.server
    /\ client.login = config.login
    /\ client.token = config.token
    /\ client.authType # config.authType =>
          config.authType = "nil" /\ client.authType = "basic" /\ wire # <<>>

\* A download by a client built without an auth type left the client with
\* the auth type basic.
C13_Witness ==
    /\ call.op = "DownloadAttachment" /\ Len(wire) = 1
    /\ config.authType = "nil" /\ client.authType = "basic"

(* C14: when an operation has returned, nothing it opened is open: the local
   file an upload read, the destination file a download wrote and every
   response body are closed on the success path and on every error path (the
   read failure while building the multipart body, transport error, status
   that is not a success, decode failure, create and copy failure). *)
C14_AllClosed == handles.open = {}

\* A download whose copy failed returned with the body and the destination
\* file closed.
C14_Witness ==
    /\ call.op = "DownloadAttachment" /\ call.err.kind = "CopyError"
    /\ handles.opened = {"res.Body", "out"}
    /\ handles.open = {}

(* C16: escapeCSV(s) is s between one pair of double quotes, every byte of s
   kept as it is (a double quote inside included), exactly when s holds a
   comma, a double quote or a newline; otherwise it is s, and escaping the
   result again changes nothing. *)
C16_EscapeCSV ==
    view.fn = "escapeCSV" =>
        LET s == view.s
            out == view.out
            special == \E i \in 1..Len(s) : s[i] \in {",", "\"", "\n"}
        IN  /\ special =>
                  /\ Len(out) = Len(s) + 2
                  /\ out[1] = "\"" /\ out[Len(out)] = "\""
                  /\ \A i \in 1..Len(s) : out[i + 1] = s[i]
            /\ ~special => out = s /\ view.out2 = s
            /\ out # s <=> special

\* A field with a double quote in the middle came back wrapped, the inner
\* quote not doubled.
C16_Witness ==
    /\ view.fn = "escapeCSV"
    /\ view.s = <<"a", "\"", "a">>
    /\ view.out = <<"\"", "a", "\"", "a", "\"">>

(* C18, as stated: formatDate returns a string of at most ten characters as
   it is, and the first ten characters of a longer one. *)
C18_FirstTenCharacters ==
    view.fn = "formatDate" =>
        /\ Len(Runes(view.s)) <= 10 => view.out = view.s
        /\ Len(Runes(view.s)) > 10 => Runes(view.out) = SubSeq(Runes(view.s), 1, 10)

(* C18, what holds: formatDate counts bytes.  A string of at most ten bytes
   comes back as it is, of a longer one the first ten bytes; for a string of
   one-byte characters these are its first ten characters. *)
C18_FirstTenBytes ==
    view.fn = "formatDate" =>
        /\ Len(view.s) <= 10 => view.out = view.s
        /\ Len(view.s) > 10 =>
              Len(view.out) = 10 /\ \A i \in 1..10 : view.out[i] = view.s[i]
        /\ Runes(view.s) = view.s =>
              /\ Len(Runes(view.s)) <= 10 => view.out = view.s
              /\ Len(Runes(view.s)) > 10 => Runes(view.out) = SubSeq(Runes(view.s), 1, 10)

\* A date of six two-byte characters came back as its first five.
C18_Witness ==
    /\ view.fn = "formatDate"
    /\ view.s = <<"C3", "A9", "C3", "A9", "C3", "A9", "C3", "A9", "C3", "A9", "C3", "A9">>
    /\ view.out = <<"C3", "A9", "C3", "A9", "C3", "A9", "C3", "A9", "C3", "A9">>

\* The number a string of digits writes.
RECURSIVE ParseNat(_)
ParseNat(ds) ==
    IF ds = <<>> THEN 0
    ELSE ParseNat(SubSeq(ds, 1, Len(ds) - 1)) * 10
            + (CHOOSE d \in 0..9 : Digit(d) = ds[Len(ds)])

\* A formatted size "W.DD UU" read back: the unit and the hundredths.
SizeUnit(out) == SubSeq(out, Len(out) - 1, Len(out))
SizeHundredths(out) ==
    ParseNat(SubSeq(out, 1, Len(out) - 6)) * 100 + ParseNat(SubSeq(out, Len(out) - 4, Len(out) - 3))

\* "W.DD UU" with digits for W and D.
IsFixed2(out) ==
    /\ Len(out) >= 7
    /\ out[Len(out) - 2] = " " /\ out[Len(out) - 5] = "."
    /\ \A i \in (1..(Len(out) - 6)) \cup {Len(out) - 4, Len(out) - 3} :
          \E d \in 0..9 : out[i] = Digit(d)

\* The hundredths h are those of (whole + f / KB + less than 1 / KB) rounded.
NearestHundredths(h, whole, f) ==
    /\ h * KB >= (whole * KB + f) * 100 - KB \div 2
    /\ h * KB <= (whole * KB + f + 1) * 100 + KB \div 2

(* C17: formatSize picks the unit by steps of 1024 and writes two decimals
   from 1024 bytes on and none below: b < 1024 gives "b B"; from 1024 to below
   1024^2 the value b / 1024 rounded to two decimals and KB; from 1024^2 to
   below 1024^3 b / 1024^2 and MB; from 1024^3 on b / 1024^3 and GB; with
   500 -> "500 B", 1536 -> "1.50 KB", 2048 -> "2.00 KB", 5242880 -> "5.00 MB",
   2147483648 -> "2.00 GB", and 1048575, one below 1024^2, still in KB. *)
C17_FormatSize ==
    view.fn = "formatSize" =>
        LET g == view.bytes[1]
            m == view.bytes[2]
            k == view.bytes[3]
            r == view.bytes[4]
            out == view.out
        IN  /\ g = 0 /\ m = 0 /\ k = 0 =>
                  /\ SubSeq(out, Len(out) - 1, Len(out)) = <<" ", "B">>
                  /\ \A i \in 1..(Len(out) - 2) : \E d \in 0..9 : out[i] = Digit(d)
                  /\ ParseNat(SubSeq(out, 1, Len(out) - 2)) = r
            /\ g = 0 /\ m = 0 /\ k > 0 =>
                  /\ IsFixed2(out) /\ SizeUnit(out) = <<"K", "B">>
                  /\ NearestHundredths(SizeHundredths(out), k, r)
                  /\ 2 * (SizeHundredths(out) * KB - (k * KB + r) * 100) \in -KB..KB
            /\ g = 0 /\ m > 0 =>
                  /\ IsFixed2(out) /\ SizeUnit(out) = <<"M", "B">>
                  /\ NearestHundredths(SizeHundredths(out), m, k)
            /\ g > 0 =>
                  /\ IsFixed2(out) /\ SizeUnit(out) = <<"G", "B">>
                  /\ NearestHundredths(SizeHundredths(out), g, m)
            /\ view.bytes = <<0, 0, 0, 500>> => out = <<"5", "0", "0", " ", "B">>
            /\ view.bytes = <<0, 0, 1, 512>> => out = <<"1", ".", "5", "0", " ", "K", "B">>
            /\ view.bytes = <<0, 0, 2, 0>> => out = <<"2", ".", "0", "0", " ", "K", "B">>
            /\ view.bytes = <<0, 5, 0, 0>> => out = <<"5", ".", "0", "0", " ", "M", "B">>
            /\ view.bytes = <<2, 0, 0, 0>> => out = <<"2", ".", "0", "0", " ", "G", "B">>
            /\ view.bytes = <<0, 0, 1023, 1023>> => SizeUnit(out) = <<"K", "B">>

\* 1048575 bytes, one below 1024^2, came out in KB.
C17_Witness ==
    /\ view.fn = "formatSize"
    /\ view.bytes = <<0, 0, 1023, 1023>>
    /\ view.out = <<"1", "0", "2", "4", ".", "0", "0", " ", "K", "B">>

\* The number an int64 below 2^31 stands for.
Int64Value(b) == ((b[1] * KB + b[2]) * KB + b[3]) * KB + b[4]

\* A CSV field as the claims describe it: between quotes when it holds a comma,
\* a quote or a newline.
CsvField(s) ==
    IF \E i \in 1..Len(s) : s[i] \in {",", "\"", "\n"}
      THEN <<"\"">> \o s \o <<"\"">>
      ELSE s

\* The text from position i on starts with the string p.
StartsAt(text, i, p) ==
    /\ i + Len(p) - 1 <= Len(text)
    /\ SubSeq(text, i, i + Len(p) - 1) = p

\* text from position i on is the CSV lines of the attachments from the k-th on.
RECURSIVE CsvLinesAt(_, _, _, _)
CsvLinesAt(text, i, attachments, k) ==
    IF k > Len(attachments) THEN i = Len(text) + 1
    ELSE LET a == attachments[k]
             f1 == a.ID \o <<",">>
             f2 == CsvField(a.Filename) \o <<",">>
             i3 == i + Len(f1) + Len(f2)
             n3 == CHOOSE n \in 1..11 : i3 + n > Len(text) \/ text[i3 + n] = ","
             f4 == <<",">> \o CsvField(a.Author.DisplayName) \o <<",">> \o a.Created \o <<"\n">>
         IN  /\ StartsAt(text, i, f1 \o f2)
             /\ i3 + n3 <= Len(text)
             /\ \A j \in i3..(i3 + n3 - 1) : \E d \in 0..9 : text[j] = Digit(d)
             /\ ParseNat(SubSeq(text, i3, i3 + n3 - 1)) = Int64Value(a.Size)
             /\ StartsAt(text, i3 + n3, f4)
             /\ CsvLinesAt(text, i3 + n3 + Len(f4), attachments, k + 1)

(* C15: the output of renderCSV is the line ID,FILENAME,SIZE,AUTHOR,CREATED
   and then, for each attachment in the order of the input, one line of its
   ID, its file name CSV-escaped, its size in decimal digits, its author's
   display name CSV-escaped and its creation date as it is, with commas
   between them; nothing else is written. *)
C15_RenderCSV ==
    view.fn = "renderCSV" =>
        LET header == <<"I", "D", ",", "F", "I", "L", "E", "N", "A", "M", "E", ",",
                        "S", "I", "Z", "E", ",", "A", "U", "T", "H", "O", "R", ",",
                        "C", "R", "E", "A", "T", "E", "D", "\n">>
        IN  /\ StartsAt(view.out, 1, header)
            /\ CsvLinesAt(view.out, Len(header) + 1, view.attachments, 1)

\* Two attachments, the second first in the numbering, the first with a comma
\* in its file name: two lines in the order given, the size 1048576 in digits.
C15_Witness ==
    /\ view.fn = "renderCSV" /\ Len(view.attachments) = 2
    /\ view.attachments[1].ID = <<"1", "0", "0", "0", "2">>
    /\ view.attachments[2].ID = <<"1", "0", "0", "0", "1">>
    /\ view.attachments[1].Filename = <<"a", ",", " ", "b", ".", "t", "x", "t">>
    /\ view.attachments[1].Size = <<0, 1, 0, 0>>
    /\ StartsAt(view.out, 33, <<"1", "0", "0", "0", "2", ",", "\"", "a", ",", " ", "b", ".",
                                "t", "x", "t", "\"", ",", "1", "0", "4", "8", "5", "7", "6", ",">>)

\* A text without its tabs.
StripTabs(text) == SelectSeq(text, LAMBDA c : c # "\t")

\* The cells of a line of a table: what stands between runs of tabs.
Cells(line) == SelectSeq(SplitOn(line, "\t"), LAMBDA c : c # <<>>)

\* The five columns of an attachment in a table.
Columns(a) ==
    <<a.ID, a.Filename, formatSize(a.Size), a.Author.DisplayName, formatDate(a.Created)>>

HeaderColumns ==
    << <<"I", "D">>, <<"F", "I", "L", "E", "N", "A", "M", "E">>, <<"S", "I", "Z", "E">>,
       <<"A", "U", "T", "H", "O", "R">>, <<"C", "R", "E", "A", "T", "E", "D">> >>

\* No column is empty or holds a tab or a newline.
PlainColumns(a) ==
    \A j \in 1..5 :
        /\ Columns(a)[j] # <<>>
        /\ \A i \in 1..Len(Columns(a)[j]) : Columns(a)[j][i] \notin {"\t", "\n"}

(* C19: renderTable writes the header row ID, FILENAME, SIZE, AUTHOR, CREATED
   and then one row per attachment; renderPlain writes the same rows and no
   header row; in both the rows stand in the order of the input, each with
   the ID, the file name, formatSize of the size, the author's display name
   and formatDate of the date; apart from the tabs that align the columns
   nothing else is written; and the input is left as it was. *)
C19_RenderTablePlain ==
    view.fn \in {"renderTable", "renderPlain"} =>
        LET as == view.attachments
            head == IF view.fn = "renderTable" THEN 1 ELSE 0
            lines == SplitOn(view.out, "\n")
        IN  /\ view.after = as
            /\ StripTabs(view.out) =
                  (IF head = 1 THEN Concat(HeaderColumns) \o <<"\n">> ELSE <<>>)
                      \o Concat([i \in 1..Len(as) |-> Concat(Columns(as[i])) \o <<"\n">>])
            /\ head = 1 => Cells(lines[1]) = HeaderColumns
            /\ head = 0 /\ as = <<>> => view.out = <<>>
            /\ (\A i \in 1..Len(as) : PlainColumns(as[i])) =>
                  /\ Len(lines) = head + Len(as) + 1
                  /\ lines[Len(lines)] = <<>>
                  /\ \A i \in 1..Len(as) : Cells(lines[head + i]) = Columns(as[i])

\* A plain listing of two attachments, the one numbered 10002 first: two rows
\* in that order, the first with its size as 1.00 MB and its date cut to the
\* day.
C19_Witness ==
    /\ view.fn = "renderPlain" /\ Len(view.attachments) = 2
    /\ view.attachments[1].ID = <<"1", "0", "0", "0", "2">>
    /\ view.attachments[2].ID = <<"1", "0", "0", "0", "1">>
    /\ Len(SplitOn(view.out, "\n")) = 3
    /\ Cells(SplitOn(view.out, "\n")[1]) =
          << <<"1", "0", "0", "0", "2">>, <<"d", "o", "c", ".", "p", "d", "f">>,
             <<"1", ".", "0", "0", " ", "M", "B">>, <<"J", "o", "h", "n", " ", "D", "o", "e">>,
             <<"2", "0", "2", "0", "-", "1", "2", "-", "0", "1">> >>
    /\ Cells(SplitOn(view.out, "\n")[2])[1] = <<"1", "0", "0", "0", "1">>

(* C20: `remove` sends at most one request, a DELETE of the attachment ID it
   was given, and sends it only when the issue key and the attachment ID are
   not empty, the issue was fetched, the ID is the ID of one of the fetched
   issue's attachments and, unless --no-input is set, the user picked Submit;
   when the ID is not on the issue, when the prompt fails and when the user
   picks Cancel the command fails and no request was sent. *)
C20_RemoveDeletesOnce ==
    cmd.name = "remove" =>
        /\ Len(wire) <= 1 /\ Len(cmd.calls) <= 1 /\ Len(wire) <= Len(cmd.calls)
        /\ \A i \in 1..Len(wire) :
              /\ wire[i].method = "DELETE"
              /\ wire[i].url[Len(wire[i].url)] = cmd.attachmentID
        /\ cmd.calls # <<>> \/ cmd.pc = "delete" =>
              /\ cmd.issueKey # "" /\ cmd.attachmentID # ""
              /\ cmd.fetched
              /\ \E i \in 1..Len(cmd.attachments) : cmd.attachments[i].ID = cmd.attachmentID
              /\ cmd.noInput \/ cmd.answer = "Submit"
        /\ cmd.answer \in {"error", "Cancel"} => cmd.pc = "failed" /\ wire = <<>>
        /\ /\ cmd.fetched
           /\ \A i \in 1..Len(cmd.attachments) : cmd.attachments[i].ID # cmd.attachmentID
           => cmd.pc = "failed" /\ wire = <<>>
        /\ cmd.pc = "done" => Len(wire) = 1 /\ cmd.calls[1].err = NoErr

\* The user picked Cancel for an attachment that is on the issue: the command
\* failed and nothing was sent.
C20_Witness ==
    /\ cmd.name = "remove" /\ cmd.pc = "failed" /\ cmd.answer = "Cancel"
    /\ cmd.fetched /\ cmd.todo # <<>>
    /\ cmd.err.messages = <<"Action aborted">>
    /\ wire = <<>>

(* C21: `add` sends no upload request unless every file of the argument list
   existed when the command validated them and, unless --no-input is set, the
   user picked Submit: when a file of the list did not exist, or the user
   picked Cancel, the command has failed and has made no upload call and sent
   no request, not even for the files listed before the missing one. *)
C21_NoUploadUnlessValidated ==
    cmd.name = "add" =>
        /\ wire # <<>> \/ cmd.calls # <<>> \/ cmd.pc \in {"upload", "done"} =>
              /\ cmd.issueKey # "" /\ cmd.files # <<>>
              /\ \A i \in 1..Len(cmd.files) : cmd.before[cmd.files[i]].kind # "none"
              /\ cmd.noInput \/ cmd.answer = "Submit"
        /\ (\E i \in 1..Len(cmd.files) : cmd.before[cmd.files[i]].kind = "none") =>
              cmd.pc = "failed" /\ cmd.calls = <<>> /\ wire = <<>>
        /\ cmd.answer = "Cancel" =>
              cmd.pc = "failed" /\ cmd.calls = <<>> /\ wire = <<>>

\* Two files were listed, the first exists and the second does not: the
\* command failed at the validation and sent nothing.
C21_Witness ==
    /\ cmd.name = "add" /\ cmd.pc = "failed" /\ cmd.issueKey # ""
    /\ Len(cmd.files) = 2
    /\ cmd.before[cmd.files[1]].kind = "file" /\ cmd.before[cmd.files[2]].kind = "none"
    /\ cmd.err.messages = <<"File does not exist">>
    /\ cmd.calls = <<>> /\ wire = <<>>

====
